---- MODULE Spec2Model ----
(***************************************************************************)
(* The strategy backtesting engine of utils/backtesting.py:                *)
(* Backtester.backtest_strategy, its indicator computation                 *)
(* (_calculate_rsi and the two rolling means), _generate_signal, the       *)
(* per-bar position loop, the forced close and the result record.          *)
(*                                                                         *)
(* Numbers.  The code computes in IEEE doubles.  Prices and capital are    *)
(* modelled as integers (currency ticks) and every ratio the code forms    *)
(* (rolling means, RS, RSI, price_change, the thresholds) as an exact      *)
(* fraction num/den with den > 0, or as NaN, pandas' "no value".  The      *)
(* comparisons of the code are the comparisons of these fractions; any     *)
(* comparison with NaN is false, as in the code.                           *)
(*                                                                         *)
(* Bars are numbered 1..Len(hist); bar k is hist.iloc[k-1].                *)
(***************************************************************************)
EXTENDS Integers, Sequences, FiniteSets, TLC

\* Bounds of the model: the longest price series and the highest close.
MaxLen == 5
MaxPrice == 4

VARIABLES
    initial_capital,   \* self.initial_capital
    results,           \* self.results
    hist,              \* hist['Close'] as the market-data provider returns it
    strategy_params,   \* the strategy_params argument
    pc,                \* position of the call in backtest_strategy
    i,                 \* the loop variable (bar number)
    capital,
    shares,
    entry_price,
    signal,
    trades,
    equity_curve,
    outcome,           \* what the call returned
    prev_outcome,      \* what the caller got from the previous call
    suspended          \* the locals of a second call on the instance that is not running

vars == << initial_capital, results, hist, strategy_params, pc, i, capital,
           shares, entry_price, signal, trades, equity_curve, outcome,
           prev_outcome, suspended >>

instance_vars == << initial_capital, results >>
input_vars == << hist, strategy_params >>

----------------------------------------------------------------------------
\* Fractions and NaN.

NaN == [nan |-> TRUE, num |-> 0, den |-> 1]

Rat(n, d) == [nan |-> FALSE, num |-> n, den |-> d]

isna(x) == x.nan

\* a < b, a > b, a <= b, a >= b: false when either side is NaN.
Lt(a, b) == ~a.nan /\ ~b.nan /\ a.num * b.den < b.num * a.den

Gt(a, b) == Lt(b, a)

Le(a, b) == ~a.nan /\ ~b.nan /\ a.num * b.den <= b.num * a.den

Ge(a, b) == Le(b, a)

Neg(a) == [a EXCEPT !.num = -a.num]

\* a - b and a * n / d on fractions; NaN propagates.
Sub(a, b) ==
    IF a.nan \/ b.nan THEN NaN ELSE Rat(a.num * b.den - b.num * a.den, a.den * b.den)

Scale(a, n, d) == IF a.nan THEN NaN ELSE Rat(a.num * n, a.den * d)

\* Rounding the share count up instead of down.
FloorDiv_RoundUp(a, b) == (a + b - 1) \div b

\* Python's // on a non-negative capital and a positive price.
FloorDiv(a, b) == a \div b

----------------------------------------------------------------------------
\* The inputs of a call.

Unbound == 0          \* a local variable that has not been assigned yet

Prices == 1..MaxPrice

RECURSIVE SeqsUpTo(_)
SeqsUpTo(n) ==
    IF n = 0 THEN {<< >>}
    ELSE LET shorter == SeqsUpTo(n - 1)
         IN  shorter \cup {Append(s, p) : s \in {t \in shorter : Len(t) = n - 1}, p \in Prices}

PriceSeries == SeqsUpTo(MaxLen)

\* Backtester(initial_capital): few enough ticks that a close can exceed the
\* capital left after a losing round trip.
InitialCapital == 3

Params(rp, os, ob, ms, ml, sl, tp) ==
    [rsi_period |-> rp, rsi_oversold |-> os, rsi_overbought |-> ob,
     ma_short |-> ms, ma_long |-> ml, stop_loss |-> sl, take_profit |-> tp]

\* strategy_params.get(key, default): every key is present in the model.
\* The last two break an invariant of StrategyParams: rsi_oversold =
\* rsi_overbought, and ma_short = ma_long.
ParamSets ==
    { Params(3, 50, 90, 1, 3, Rat(25, 100), Rat(50, 100)),
      Params(2, 50, 100, 1, 2, Rat(25, 100), Rat(50, 100)),
      Params(2, 50, 50, 1, 2, Rat(25, 100), Rat(50, 100)),
      Params(2, 30, 70, 2, 2, Rat(25, 100), Rat(50, 100)) }

\* Parameters at the edges of what the entry accepts without validation:
\* rsi_oversold above rsi_overbought, an RSI window of one bar, moving
\* averages of one bar, and ma_short above ma_long (which buys on a falling
\* bar and so can run into its stop-loss after a winning SELL).
EdgeParamSets ==
    { Params(2, 50, 30, 1, 2, Rat(25, 100), Rat(50, 100)),
      Params(1, 30, 70, 2, 1, Rat(25, 100), Rat(50, 100)),
      Params(1, 101, 30, 1, 2, Rat(25, 100), Rat(50, 100)),
      Params(1, 50, 90, 1, 1, Rat(25, 100), Rat(50, 100)) }

----------------------------------------------------------------------------
\* Indicator Engine.

Close(k) == hist[k]

\* delta.where(delta > 0, 0): the first delta is NaN, and NaN > 0 is false.
Gain == [k \in 1..Len(hist) |->
            IF k > 1 /\ hist[k] - hist[k - 1] > 0 THEN hist[k] - hist[k - 1] ELSE 0]

\* -delta.where(delta < 0, 0)
Loss == [k \in 1..Len(hist) |->
            IF k > 1 /\ hist[k] - hist[k - 1] < 0 THEN hist[k - 1] - hist[k] ELSE 0]

RECURSIVE WindowSum(_, _, _)
WindowSum(series, k, w) ==
    IF w = 0 THEN 0 ELSE series[k] + WindowSum(series, k - 1, w - 1)

\* series.rolling(window=w).mean() at bar k: NaN until the window is full.
RollingMean(series, k, w) ==
    IF k < w THEN NaN ELSE Rat(WindowSum(series, k, w), w)

\* An RSI with the average loss over the average gain.
_calculate_rsi_Swapped(k, period) ==
    LET gain == RollingMean(Loss, k, period)
        loss == RollingMean(Gain, k, period)
    IN  IF gain.nan \/ loss.nan THEN NaN
        ELSE IF loss.num = 0
             THEN (IF gain.num = 0 THEN NaN ELSE Rat(100, 1))
             ELSE Rat(100 * gain.num, gain.num + loss.num)

\* _calculate_rsi at bar k.  rs = gain / loss is 0/0 = NaN when both are 0 and
\* infinite when only loss is 0, where 100 - 100 / (1 + rs) is 100; otherwise
\* 100 - 100 / (1 + G/L) = 100 G / (G + L).
_calculate_rsi(k, period) ==
    LET gain == RollingMean(Gain, k, period)
        loss == RollingMean(Loss, k, period)
    IN  IF gain.nan \/ loss.nan THEN NaN
        ELSE IF loss.num = 0
             THEN (IF gain.num = 0 THEN NaN ELSE Rat(100, 1))
             ELSE Rat(100 * gain.num, gain.num + loss.num)

RSI(k) == _calculate_rsi(k, strategy_params.rsi_period)

MA_Short(k) == RollingMean(hist, k, strategy_params.ma_short)

MA_Long(k) == RollingMean(hist, k, strategy_params.ma_long)

\* A skip test that looks at the moving averages only.
IndicatorsMissing_MaOnly(k) == isna(MA_Short(k)) \/ isna(MA_Long(k))

\* The test of the loop's "Skip if indicators are not available".
IndicatorsMissing(k) == isna(RSI(k)) \/ isna(MA_Short(k)) \/ isna(MA_Long(k))

----------------------------------------------------------------------------
\* Signal Generator.

\* SELL only when the RSI and the moving averages agree, as BUY does.
_generate_signal_SellNeedsBoth(rsi, ma_short, ma_long, rsi_oversold, rsi_overbought) ==
    LET rsi_buy == Lt(rsi, Rat(rsi_oversold, 1))
        rsi_sell == Gt(rsi, Rat(rsi_overbought, 1))
        ma_buy == Gt(ma_short, ma_long)
        ma_sell == Lt(ma_short, ma_long)
    IN  IF rsi_buy /\ ma_buy THEN "BUY"
        ELSE IF rsi_sell /\ ma_sell THEN "SELL"
        ELSE "HOLD"

\* A rule that tests the SELL condition before the BUY condition.
_generate_signal_SellFirst(rsi, ma_short, ma_long, rsi_oversold, rsi_overbought) ==
    LET rsi_buy == Lt(rsi, Rat(rsi_oversold, 1))
        rsi_sell == Gt(rsi, Rat(rsi_overbought, 1))
        ma_buy == Gt(ma_short, ma_long)
        ma_sell == Lt(ma_short, ma_long)
    IN  IF rsi_sell \/ ma_sell THEN "SELL"
        ELSE IF rsi_buy /\ ma_buy THEN "BUY"
        ELSE "HOLD"

_generate_signal(rsi, ma_short, ma_long, rsi_oversold, rsi_overbought) ==
    LET rsi_buy == Lt(rsi, Rat(rsi_oversold, 1))
        rsi_sell == Gt(rsi, Rat(rsi_overbought, 1))
        ma_buy == Gt(ma_short, ma_long)
        ma_sell == Lt(ma_short, ma_long)
    IN  IF rsi_buy /\ ma_buy THEN "BUY"
        ELSE IF rsi_sell \/ ma_sell THEN "SELL"
        ELSE "HOLD"

BarSignal(k) ==
    _generate_signal(RSI(k), MA_Short(k), MA_Long(k),
                     strategy_params.rsi_oversold, strategy_params.rsi_overbought)

----------------------------------------------------------------------------
\* Trades and the result record.

Trade(date, action, price, n, cap) ==
    [date |-> date, action |-> action, price |-> price, shares |-> n, capital |-> cap]

\* [t for t in trades if t['action'] in actions]
TradesWith(log, actions) == SelectSeq(log, LAMBDA t : t.action \in actions)

RECURSIVE SumPrice(_)
SumPrice(log) == IF log = << >> THEN 0 ELSE Head(log).price + SumPrice(Tail(log))

\* daily_returns.std() * sqrt(252), by the class of its value: the sample
\* standard deviation (ddof = 1) of fewer than two daily returns is NaN, that
\* of equal daily returns is 0, any other is positive.  Daily return k is
\* (e[k+1] - e[k]) / e[k]; two of them are equal iff e[j+1]*e[k] = e[k+1]*e[j].
Volatility(equity_series) ==
    LET m == Len(equity_series) - 1
    IN  IF m < 2 THEN "nan"
        ELSE IF \A j, k \in 1..m :
                   equity_series[j + 1] * equity_series[k] =
                   equity_series[k + 1] * equity_series[j]
             THEN "zero"
             ELSE "positive"

\* A ratio that is taken whenever the volatility is a number.
SharpeRatio_NoGuard(equity_series) ==
    IF Volatility(equity_series) = "nan" THEN "zero" ELSE "ratio"

\* (daily_returns.mean() * 252) / volatility if volatility > 0 else 0, by the
\* class of its value: a comparison with NaN is false.
SharpeRatio(equity_series) ==
    IF Volatility(equity_series) = "positive" THEN "ratio" ELSE "zero"

\* cumulative_returns.expanding().max() at position k: cumulative return k is
\* e[k] / e[1] for k >= 2, so the running maximum is that of e[2..k] over e[1].
RECURSIVE RunningMax(_, _)
RunningMax(equity_series, k) ==
    IF k <= 2 THEN equity_series[2]
    ELSE LET m == RunningMax(equity_series, k - 1)
         IN  IF equity_series[k] > m THEN equity_series[k] ELSE m

\* ((cumulative_returns - running_max) / running_max).min(): NaN for the
\* empty series of daily returns.
MaxDrawdown(equity_series) ==
    LET n == Len(equity_series)
        dd(k) == Rat(equity_series[k] - RunningMax(equity_series, k),
                     RunningMax(equity_series, k))
    IN  IF n < 2 THEN NaN
        ELSE dd(CHOOSE k \in 2..n : \A j \in 2..n : Le(dd(k), dd(j)))

\* Metrics whose win_rate is taken over the entries (BUY trades) only.
_calculate_performance_metrics_WinsPerEntry(equity_series, log, closes) ==
    LET n == Len(equity_series)
        total_return == Rat(equity_series[n] - equity_series[1], equity_series[1])
        winning_trades == TradesWith(log, {"SELL", "TAKE_PROFIT"})
        losing_trades == TradesWith(log, {"STOP_LOSS"})
        win_rate == IF log # << >>
                    THEN Rat(Len(winning_trades), Len(TradesWith(log, {"BUY"})))
                    ELSE Rat(0, 1)
        profit_factor ==
            IF log # << >> /\ winning_trades # << >> /\ losing_trades # << >>
            THEN \* avg_win / avg_loss; avg_loss > 0 as closes are positive
                 Rat(SumPrice(winning_trades) * Len(losing_trades),
                     Len(winning_trades) * SumPrice(losing_trades))
            ELSE Rat(0, 1)
        buy_hold_return == Rat(closes[Len(closes)] - closes[1], closes[1])
    IN  [total_return |-> total_return,
         annualized_return |-> Scale(total_return, 252, n),
         volatility |-> Volatility(equity_series),
         sharpe_ratio |-> SharpeRatio(equity_series),
         max_drawdown |-> MaxDrawdown(equity_series),
         win_rate |-> win_rate,
         profit_factor |-> profit_factor,
         total_trades |-> Len(log),
         buy_hold_return |-> buy_hold_return,
         excess_return |-> Sub(total_return, buy_hold_return)]

\* Metrics whose profit_factor is the mean losing price over the mean
\* winning price.
_calculate_performance_metrics_LossOverWin(equity_series, log, closes) ==
    LET n == Len(equity_series)
        total_return == Rat(equity_series[n] - equity_series[1], equity_series[1])
        winning_trades == TradesWith(log, {"SELL", "TAKE_PROFIT"})
        losing_trades == TradesWith(log, {"STOP_LOSS"})
        win_rate == IF log # << >> THEN Rat(Len(winning_trades), Len(log)) ELSE Rat(0, 1)
        profit_factor ==
            IF log # << >> /\ winning_trades # << >> /\ losing_trades # << >>
            THEN \* avg_win / avg_loss; avg_loss > 0 as closes are positive
                 Rat(Len(winning_trades) * SumPrice(losing_trades),
                     SumPrice(winning_trades) * Len(losing_trades))
            ELSE Rat(0, 1)
        buy_hold_return == Rat(closes[Len(closes)] - closes[1], closes[1])
    IN  [total_return |-> total_return,
         annualized_return |-> Scale(total_return, 252, n),
         volatility |-> Volatility(equity_series),
         sharpe_ratio |-> SharpeRatio(equity_series),
         max_drawdown |-> MaxDrawdown(equity_series),
         win_rate |-> win_rate,
         profit_factor |-> profit_factor,
         total_trades |-> Len(log),
         buy_hold_return |-> buy_hold_return,
         excess_return |-> Sub(total_return, buy_hold_return)]

\* _calculate_performance_metrics.
_calculate_performance_metrics(equity_series, log, closes) ==
    LET n == Len(equity_series)
        total_return == Rat(equity_series[n] - equity_series[1], equity_series[1])
        winning_trades == TradesWith(log, {"SELL", "TAKE_PROFIT"})
        losing_trades == TradesWith(log, {"STOP_LOSS"})
        win_rate == IF log # << >> THEN Rat(Len(winning_trades), Len(log)) ELSE Rat(0, 1)
        profit_factor ==
            IF log # << >> /\ winning_trades # << >> /\ losing_trades # << >>
            THEN \* avg_win / avg_loss; avg_loss > 0 as closes are positive
                 Rat(SumPrice(winning_trades) * Len(losing_trades),
                     Len(winning_trades) * SumPrice(losing_trades))
            ELSE Rat(0, 1)
        buy_hold_return == Rat(closes[Len(closes)] - closes[1], closes[1])
    IN  [total_return |-> total_return,
         annualized_return |-> Scale(total_return, 252, n),
         volatility |-> Volatility(equity_series),
         sharpe_ratio |-> SharpeRatio(equity_series),
         max_drawdown |-> MaxDrawdown(equity_series),
         win_rate |-> win_rate,
         profit_factor |-> profit_factor,
         total_trades |-> Len(log),
         buy_hold_return |-> buy_hold_return,
         excess_return |-> Sub(total_return, buy_hold_return)]

NoOutcome ==
    [kind |-> "none", final_capital |-> 0, total_return |-> NaN, trades |-> << >>,
     equity_curve |-> << >>, performance_metrics |-> << >>, strategy_params |-> << >>]

\* return {"error": ...}
ErrorOutcome == [NoOutcome EXCEPT !.kind = "error"]

\* equity_curve[-1] of an empty list raises IndexError
RaisedOutcome == [NoOutcome EXCEPT !.kind = "raised"]

\* A record whose total_return is the growth factor final / initial.
ResultOutcome_GrowthFactor ==
    LET final_capital == equity_curve[Len(equity_curve)]
    IN  [kind |-> "result",
         final_capital |-> final_capital,
         total_return |-> Rat(final_capital, initial_capital),
         trades |-> trades,
         equity_curve |-> equity_curve,
         performance_metrics |-> _calculate_performance_metrics(equity_curve, trades, hist),
         strategy_params |-> strategy_params]

\* A record whose total_return is taken relative to the final capital.
ResultOutcome_ReturnOnFinal ==
    LET final_capital == equity_curve[Len(equity_curve)]
    IN  [kind |-> "result",
         final_capital |-> final_capital,
         total_return |-> Rat(final_capital - initial_capital, final_capital),
         trades |-> trades,
         equity_curve |-> equity_curve,
         performance_metrics |-> _calculate_performance_metrics(equity_curve, trades, hist),
         strategy_params |-> strategy_params]

ResultOutcome ==
    LET final_capital == equity_curve[Len(equity_curve)]
    IN  [kind |-> "result",
         final_capital |-> final_capital,
         total_return |-> Rat(final_capital - initial_capital, initial_capital),
         trades |-> trades,
         equity_curve |-> equity_curve,
         performance_metrics |-> _calculate_performance_metrics(equity_curve, trades, hist),
         strategy_params |-> strategy_params]

----------------------------------------------------------------------------
\* The state after Backtester(initial_capital), with the inputs of the calls.

\* The locals of a call that has not been entered yet.
IdleFrame ==
    [pc |-> "idle", i |-> 0, capital |-> 0, shares |-> 0,
     entry_price |-> Unbound, signal |-> "NONE", trades |-> << >>,
     equity_curve |-> << >>, outcome |-> NoOutcome]

Init ==
    /\ initial_capital = InitialCapital
    /\ results = << >>
    /\ hist \in PriceSeries
    /\ strategy_params \in ParamSets
    /\ pc = "idle"
    /\ i = 0
    /\ capital = 0
    /\ shares = 0
    /\ entry_price = Unbound
    /\ signal = "NONE"
    /\ trades = << >>
    /\ equity_curve = << >>
    /\ outcome = NoOutcome
    /\ prev_outcome = NoOutcome
    /\ suspended = IdleFrame

\* An entry without the empty-history return.
Start_NoEmptyCheck ==
    /\ pc = "idle"
    /\ entry_price' = Unbound
    /\ signal' = "NONE"
    /\ trades' = << >>
    /\ equity_curve' = << >>
    /\ shares' = 0
    /\ pc' = "loop"
    /\ outcome' = NoOutcome
    /\ capital' = initial_capital
    /\ i' = 1
    /\ UNCHANGED << instance_vars, input_vars, prev_outcome, suspended >>

\* An entry that starts from the capital the previous run ended with.
Start_CarryCapital ==
    /\ pc = "idle"
    /\ entry_price' = Unbound
    /\ signal' = "NONE"
    /\ trades' = << >>
    /\ equity_curve' = << >>
    /\ shares' = 0
    /\ IF hist = << >>
       THEN /\ pc' = "done"
            /\ outcome' = ErrorOutcome
            /\ capital' = 0
            /\ i' = 0
       ELSE /\ pc' = "loop"
            /\ outcome' = NoOutcome
            /\ capital' = IF prev_outcome.kind = "result"
                          THEN prev_outcome.final_capital
                          ELSE initial_capital
            /\ i' = 1
    /\ UNCHANGED << instance_vars, input_vars, prev_outcome, suspended >>

\* Entry of backtest_strategy: the empty-history return, the fresh locals.
Start ==
    /\ pc = "idle"
    /\ entry_price' = Unbound
    /\ signal' = "NONE"
    /\ trades' = << >>
    /\ equity_curve' = << >>
    /\ shares' = 0
    /\ IF hist = << >>
       THEN /\ pc' = "done"
            /\ outcome' = ErrorOutcome
            /\ capital' = 0
            /\ i' = 0
       ELSE /\ pc' = "loop"
            /\ outcome' = NoOutcome
            /\ capital' = initial_capital
            /\ i' = 1
    /\ UNCHANGED << instance_vars, input_vars, prev_outcome, suspended >>

\* The tests of the loop's branches.
CanBuy_AnyPosition(sig) == sig = "BUY"

CanBuy(sig) == sig = "BUY" /\ shares = 0

\* A SELL that does not ask for an open position.
CanSell_AnyPosition(sig) == sig = "SELL"

CanSell(sig) == sig = "SELL" /\ shares > 0

\* stop_loss read as a percentage (5 for 5%) instead of a fraction.
StopLossHit_Percent(price_change) ==
    Le(price_change, Neg(Scale(strategy_params.stop_loss, 100, 1)))

StopLossHit(price_change) == Le(price_change, Neg(strategy_params.stop_loss))

\* A target that must be exceeded, not just met.
TakeProfitHit_Strict(price_change) == Gt(price_change, strategy_params.take_profit)

TakeProfitHit(price_change) == Ge(price_change, strategy_params.take_profit)

\* A skipped bar that leaves no equity point.
SkipBar_NoEquity ==
    /\ pc = "loop"
    /\ i <= Len(hist)
    /\ IndicatorsMissing(i)
    /\ i' = i + 1
    /\ UNCHANGED << instance_vars, input_vars, pc, capital, shares, entry_price,
                    signal, trades, equity_curve, outcome, prev_outcome, suspended >>

\* A skipped bar that records the value of the shares without the cash.
SkipBar_SharesOnly ==
    /\ pc = "loop"
    /\ i <= Len(hist)
    /\ IndicatorsMissing(i)
    /\ equity_curve' = Append(equity_curve, shares * Close(i))
    /\ i' = i + 1
    /\ UNCHANGED << instance_vars, input_vars, pc, capital, shares, entry_price,
                    signal, trades, outcome, prev_outcome, suspended >>

\* A skip that goes round the loop without moving to the next bar.
SkipBar_NoAdvance ==
    /\ pc = "loop"
    /\ i <= Len(hist)
    /\ IndicatorsMissing(i)
    /\ UNCHANGED vars

\* A bar whose indicators are not available: record equity, continue.
SkipBar ==
    /\ pc = "loop"
    /\ i <= Len(hist)
    /\ IndicatorsMissing(i)
    /\ equity_curve' = Append(equity_curve, capital + shares * Close(i))
    /\ i' = i + 1
    /\ UNCHANGED << instance_vars, input_vars, pc, capital, shares, entry_price,
                    signal, trades, outcome, prev_outcome, suspended >>

\* A BUY that is logged with the capital of before the purchase.
SignalStep_LogsBeforePaying ==
    /\ pc = "loop"
    /\ i <= Len(hist)
    /\ ~IndicatorsMissing(i)
    /\ LET current_price == Close(i)
           sig == BarSignal(i)
       IN  /\ signal' = sig
           /\ IF CanBuy(sig)
              THEN LET n == FloorDiv(capital, current_price)
                       c == capital - n * current_price
                   IN  /\ shares' = n
                       /\ capital' = c
                       /\ entry_price' = current_price
                       /\ trades' = Append(trades, Trade(i, "BUY", current_price, n, capital))
              ELSE IF CanSell(sig)
              THEN LET c == capital + shares * current_price
                   IN  /\ capital' = c
                       /\ trades' = Append(trades, Trade(i, "SELL", current_price, shares, c))
                       /\ shares' = 0
                       /\ UNCHANGED entry_price
              ELSE UNCHANGED << capital, shares, entry_price, trades >>
    /\ pc' = "stops"
    /\ UNCHANGED << instance_vars, input_vars, i, equity_curve, outcome, prev_outcome, suspended >>

\* A SELL that sells one share of the position.
SignalStep_SellsOneShare ==
    /\ pc = "loop"
    /\ i <= Len(hist)
    /\ ~IndicatorsMissing(i)
    /\ LET current_price == Close(i)
           sig == BarSignal(i)
       IN  /\ signal' = sig
           /\ IF CanBuy(sig)
              THEN LET n == FloorDiv(capital, current_price)
                       c == capital - n * current_price
                   IN  /\ shares' = n
                       /\ capital' = c
                       /\ entry_price' = current_price
                       /\ trades' = Append(trades, Trade(i, "BUY", current_price, n, c))
              ELSE IF CanSell(sig)
              THEN LET c == capital + current_price
                   IN  /\ capital' = c
                       /\ trades' = Append(trades, Trade(i, "SELL", current_price, 1, c))
                       /\ shares' = shares - 1
                       /\ UNCHANGED entry_price
              ELSE UNCHANGED << capital, shares, entry_price, trades >>
    /\ pc' = "stops"
    /\ UNCHANGED << instance_vars, input_vars, i, equity_curve, outcome, prev_outcome, suspended >>

\* Generate the signal and execute the BUY or the SELL.
SignalStep ==
    /\ pc = "loop"
    /\ i <= Len(hist)
    /\ ~IndicatorsMissing(i)
    /\ LET current_price == Close(i)
           sig == BarSignal(i)
       IN  /\ signal' = sig
           /\ IF CanBuy(sig)
              THEN LET n == FloorDiv(capital, current_price)
                       c == capital - n * current_price
                   IN  /\ shares' = n
                       /\ capital' = c
                       /\ entry_price' = current_price
                       /\ trades' = Append(trades, Trade(i, "BUY", current_price, n, c))
              ELSE IF CanSell(sig)
              THEN LET c == capital + shares * current_price
                   IN  /\ capital' = c
                       /\ trades' = Append(trades, Trade(i, "SELL", current_price, shares, c))
                       /\ shares' = 0
                       /\ UNCHANGED entry_price
              ELSE UNCHANGED << capital, shares, entry_price, trades >>
    /\ pc' = "stops"
    /\ UNCHANGED << instance_vars, input_vars, i, equity_curve, outcome, prev_outcome, suspended >>

\* Stop checks that do not ask whether a position is still open.
StopStep_NoPositionCheck ==
    /\ pc = "stops"
    /\ LET current_price == Close(i)
           price_change == Rat(current_price - entry_price, entry_price)
           c == capital + shares * current_price
       IN  IF StopLossHit(price_change)
           THEN /\ capital' = c
                /\ trades' = Append(trades, Trade(i, "STOP_LOSS", current_price, shares, c))
                /\ shares' = 0
                /\ equity_curve' = Append(equity_curve, c)
           ELSE IF TakeProfitHit(price_change)
           THEN /\ capital' = c
                /\ trades' = Append(trades, Trade(i, "TAKE_PROFIT", current_price, shares, c))
                /\ shares' = 0
                /\ equity_curve' = Append(equity_curve, c)
           ELSE /\ equity_curve' = Append(equity_curve, capital + shares * current_price)
                /\ UNCHANGED << capital, shares, trades >>
    /\ i' = i + 1
    /\ pc' = "loop"
    /\ UNCHANGED << instance_vars, input_vars, entry_price, signal, outcome, prev_outcome, suspended >>

\* Stop checks that record the cash alone as the equity of the bar.
StopStep_EquityIsCapital ==
    /\ pc = "stops"
    /\ LET current_price == Close(i)
           price_change == Rat(current_price - entry_price, entry_price)
           c == capital + shares * current_price
       IN  IF shares > 0 /\ StopLossHit(price_change)
           THEN /\ capital' = c
                /\ trades' = Append(trades, Trade(i, "STOP_LOSS", current_price, shares, c))
                /\ shares' = 0
                /\ equity_curve' = Append(equity_curve, c)
           ELSE IF shares > 0 /\ TakeProfitHit(price_change)
           THEN /\ capital' = c
                /\ trades' = Append(trades, Trade(i, "TAKE_PROFIT", current_price, shares, c))
                /\ shares' = 0
                /\ equity_curve' = Append(equity_curve, c)
           ELSE /\ equity_curve' = Append(equity_curve, capital)
                /\ UNCHANGED << capital, shares, trades >>
    /\ i' = i + 1
    /\ pc' = "loop"
    /\ UNCHANGED << instance_vars, input_vars, entry_price, signal, outcome, prev_outcome, suspended >>

\* Check stop loss and take profit, then record equity.
StopStep ==
    /\ pc = "stops"
    /\ LET current_price == Close(i)
           price_change == Rat(current_price - entry_price, entry_price)
           c == capital + shares * current_price
       IN  IF shares > 0 /\ StopLossHit(price_change)
           THEN /\ capital' = c
                /\ trades' = Append(trades, Trade(i, "STOP_LOSS", current_price, shares, c))
                /\ shares' = 0
                /\ equity_curve' = Append(equity_curve, c)
           ELSE IF shares > 0 /\ TakeProfitHit(price_change)
           THEN /\ capital' = c
                /\ trades' = Append(trades, Trade(i, "TAKE_PROFIT", current_price, shares, c))
                /\ shares' = 0
                /\ equity_curve' = Append(equity_curve, c)
           ELSE /\ equity_curve' = Append(equity_curve, capital + shares * current_price)
                /\ UNCHANGED << capital, shares, trades >>
    /\ i' = i + 1
    /\ pc' = "loop"
    /\ UNCHANGED << instance_vars, input_vars, entry_price, signal, outcome, prev_outcome, suspended >>

\* An end of the loop that leaves the open position out of the trade log.
ClosePosition_NoTrade ==
    /\ pc = "loop"
    /\ i > Len(hist)
    /\ pc' = "return"
    /\ UNCHANGED << instance_vars, input_vars, i, capital, shares, entry_price, signal,
                    trades, equity_curve, outcome, prev_outcome, suspended >>

\* After the loop: close any remaining position.
ClosePosition ==
    /\ pc = "loop"
    /\ i > Len(hist)
    /\ IF shares > 0
       THEN LET final_price == Close(Len(hist))
                c == capital + shares * final_price
            IN  /\ capital' = c
                /\ trades' = Append(trades, Trade(Len(hist), "CLOSE", final_price, shares, c))
       ELSE UNCHANGED << capital, trades >>
    /\ pc' = "return"
    /\ UNCHANGED << instance_vars, input_vars, i, shares, entry_price, signal,
                    equity_curve, outcome, prev_outcome, suspended >>

\* final_capital = equity_curve[-1] and the returned record.
Return ==
    /\ pc = "return"
    /\ outcome' = IF equity_curve = << >> THEN RaisedOutcome ELSE ResultOutcome
    /\ pc' = "done"
    /\ UNCHANGED << instance_vars, input_vars, i, capital, shares, entry_price,
                    signal, trades, equity_curve, prev_outcome, suspended >>

\* The caller keeps the returned record and calls again on the same instance
\* with the same ticker and parameters.
CallAgain ==
    /\ pc = "done"
    /\ prev_outcome.kind = "none"
    /\ prev_outcome' = outcome
    /\ pc' = "idle"
    /\ UNCHANGED << instance_vars, input_vars, i, capital, shares, entry_price,
                    signal, trades, equity_curve, outcome, suspended >>

\* One call of backtest_strategy.
Next ==
    \/ Start
    \/ SkipBar
    \/ SignalStep
    \/ StopStep
    \/ ClosePosition
    \/ Return

Spec == Init /\ [][Next]_vars

\* Two calls in a row on one Backtester, on series of fewer than MaxLen bars.
InitTwice == Init /\ Len(hist) < MaxLen

NextTwice == Next \/ CallAgain

SpecTwice == InitTwice /\ [][NextTwice]_vars

\* One call that is never held up: the interpreter always takes the next
\* step of the method; on series of at most MaxLen - 2 bars.
InitFair == Init /\ Len(hist) + 2 <= MaxLen

SpecFair == InitFair /\ [][Next]_vars /\ WF_vars(Next)

\* One call with parameters from EdgeParamSets.
InitEdge ==
    /\ initial_capital = InitialCapital
    /\ results = << >>
    /\ hist \in PriceSeries
    /\ strategy_params \in EdgeParamSets
    /\ pc = "idle"
    /\ i = 0
    /\ capital = 0
    /\ shares = 0
    /\ entry_price = Unbound
    /\ signal = "NONE"
    /\ trades = << >>
    /\ equity_curve = << >>
    /\ outcome = NoOutcome
    /\ prev_outcome = NoOutcome
    /\ suspended = IdleFrame

SpecEdge == InitEdge /\ [][Next]_vars

\* The locals of the call that is running, as one frame.
ActiveFrame ==
    [pc |-> pc, i |-> i, capital |-> capital, shares |-> shares,
     entry_price |-> entry_price, signal |-> signal, trades |-> trades,
     equity_curve |-> equity_curve, outcome |-> outcome]

\* A switch between two calls that keep capital in one place shared by both.
Switch_SharedCapital ==
    /\ prev_outcome.kind # "none"
    /\ suspended # ActiveFrame
    /\ suspended' = ActiveFrame
    /\ pc' = suspended.pc
    /\ i' = suspended.i
    /\ capital' = capital
    /\ shares' = suspended.shares
    /\ entry_price' = suspended.entry_price
    /\ signal' = suspended.signal
    /\ trades' = suspended.trades
    /\ equity_curve' = suspended.equity_curve
    /\ outcome' = suspended.outcome
    /\ UNCHANGED << instance_vars, input_vars, prev_outcome >>

\* The scheduler takes the running call off the processor and resumes the
\* other call on the same instance: the two frames change places, nothing
\* else is touched.
Switch ==
    /\ prev_outcome.kind # "none"
    /\ suspended # ActiveFrame
    /\ suspended' = ActiveFrame
    /\ pc' = suspended.pc
    /\ i' = suspended.i
    /\ capital' = suspended.capital
    /\ shares' = suspended.shares
    /\ entry_price' = suspended.entry_price
    /\ signal' = suspended.signal
    /\ trades' = suspended.trades
    /\ equity_curve' = suspended.equity_curve
    /\ outcome' = suspended.outcome
    /\ UNCHANGED << instance_vars, input_vars, prev_outcome >>

\* One call alone, whose record the caller keeps, then two calls on the same
\* instance with the same inputs, their steps interleaved in any order; on
\* series of at most MaxLen - 2 bars.
InitPair == Init /\ Len(hist) + 2 <= MaxLen

NextPair == Next \/ CallAgain \/ Switch

SpecPair == InitPair /\ [][NextPair]_vars

----------------------------------------------------------------------------
\* Properties of a run.

Max(a, b) == IF a >= b THEN a ELSE b

Exits == {"SELL", "STOP_LOSS", "TAKE_PROFIT", "CLOSE"}

LastTrade == trades[Len(trades)]

\* The warm-up length the specification names: max(rsi_period, ma_long).
WarmUp == Max(strategy_params.rsi_period, strategy_params.ma_long)

\* C1: a run over a non-empty series returns an equity curve with exactly one
\* point per bar; while the loop runs, one point per bar already processed,
\* whichever branch (skip, trade, no trade) each bar took.
C1_OnePointPerBar ==
    /\ pc \in {"loop", "stops"} => Len(equity_curve) = i - 1
    /\ pc = "return" => Len(equity_curve) = Len(hist)
    /\ (pc = "done" /\ hist # << >>) =>
           /\ outcome.kind = "result"
           /\ Len(outcome.equity_curve) = Len(hist)

\* A finished run with a skipped warm-up bar, a bar with a trade and a later
\* bar without one.
C1_Witness ==
    /\ pc = "done"
    /\ outcome.kind = "result"
    /\ Len(outcome.equity_curve) = Len(hist)
    /\ Len(trades) >= 1
    /\ trades[1].date > 1
    /\ LastTrade.date < Len(hist)

\* C2: shares is never negative; a BUY trade is appended only from FLAT and an
\* exit trade only from LONG; a BUY signal while LONG and a SELL signal while
\* FLAT leave capital, shares and the trade log alone in the signal step, and
\* so do the stop checks and the final close while FLAT.
C2_Step ==
    /\ shares >= 0 /\ shares' >= 0
    /\ trades' # trades =>
           /\ Len(trades') = Len(trades) + 1
           /\ SubSeq(trades', 1, Len(trades)) = trades
           /\ trades'[Len(trades')].action = "BUY" => shares = 0
           /\ trades'[Len(trades')].action \in Exits => shares > 0
           /\ trades'[Len(trades')].action \in Exits \cup {"BUY"}
    /\ (pc = "loop" /\ pc' = "stops" /\ signal' = "BUY" /\ shares > 0) =>
           UNCHANGED << capital, shares, trades >>
    /\ (pc = "loop" /\ pc' = "stops" /\ signal' = "SELL" /\ shares = 0) =>
           UNCHANGED << capital, shares, trades >>
    /\ (pc = "stops" /\ shares = 0) => UNCHANGED << capital, shares, trades >>
    /\ (pc = "loop" /\ pc' = "return" /\ shares = 0) => UNCHANGED << capital, shares, trades >>

C2_FlatOrLong == [][C2_Step]_vars

\* A BUY signal arrived while LONG: the position was entered on an earlier bar.
C2_Witness ==
    /\ pc = "stops"
    /\ signal = "BUY"
    /\ shares > 0
    /\ LastTrade.action = "BUY"
    /\ LastTrade.date < i

\* C3: every BUY leaves capital >= 0: the cost shares * close of the purchase
\* is at most the capital before it (the capital after plus the cost).
C3_BuyNeverOverdraws ==
    /\ \A k \in 1..Len(trades) :
           trades[k].action = "BUY" =>
              /\ trades[k].capital >= 0
              /\ trades[k].capital < trades[k].price
    /\ (pc = "stops" /\ trades # << >> /\ LastTrade.action = "BUY" /\ LastTrade.date = i) =>
           /\ capital >= 0
           /\ capital = LastTrade.capital

\* A BUY of at least one share that does not divide the capital evenly.
C3_Witness ==
    /\ pc = "stops"
    /\ trades # << >>
    /\ LastTrade.action = "BUY"
    /\ LastTrade.date = i
    /\ LastTrade.shares >= 1
    /\ capital > 0

\* C4: a non-empty series with fewer bars than max(rsi_period, ma_long) runs
\* without error, with an empty trade log and every equity point equal to
\* initial_capital.
C4_ShortSeries ==
    (hist # << >> /\ Len(hist) < WarmUp) =>
        /\ trades = << >>
        /\ \A k \in 1..Len(equity_curve) : equity_curve[k] = initial_capital
        /\ outcome.kind \in {"none", "result"}
        /\ pc = "done" =>
               /\ outcome.kind = "result"
               /\ outcome.trades = << >>
               /\ Len(outcome.equity_curve) = Len(hist)
               /\ \A k \in 1..Len(hist) : outcome.equity_curve[k] = initial_capital

C4_Witness ==
    /\ pc = "done"
    /\ Len(hist) = WarmUp - 1
    /\ Len(hist) >= 2
    /\ outcome.kind = "result"
    /\ outcome.trades = << >>

ParamsValid(p) == p.rsi_oversold < p.rsi_overbought /\ p.ma_short < p.ma_long

\* C6: parameters that violate an invariant are rejected before any bar is
\* simulated: no equity point, no trade, and the call ends in a ConfigError
\* instead of a result.
C6_BadParamsRejected ==
    ~ParamsValid(strategy_params) =>
        /\ equity_curve = << >>
        /\ trades = << >>
        /\ pc = "done" => outcome.kind = "config_error"

CloseCount == Len(TradesWith(trades, {"CLOSE"}))

\* C7: no CLOSE is logged while the loop runs; after it, a position still LONG
\* has exactly one CLOSE, the last entry of the log, at the last bar's close
\* for all shares held, and a FLAT one has none.  A BUY of the last bar is
\* followed at once by that CLOSE, at the same price.
C7_ForcedClose ==
    /\ pc \in {"loop", "stops"} => CloseCount = 0
    /\ pc \in {"return", "done"} =>
           /\ shares > 0 =>
                  /\ CloseCount = 1
                  /\ LastTrade.action = "CLOSE"
                  /\ LastTrade.date = Len(hist)
                  /\ LastTrade.price = Close(Len(hist))
                  /\ LastTrade.shares = shares
                  /\ LastTrade.capital = capital
                  /\ capital = equity_curve[Len(equity_curve)]
           /\ shares = 0 => CloseCount = 0
           /\ \A k \in 1..Len(trades) :
                  (trades[k].action = "BUY" /\ trades[k].date = Len(hist) /\ trades[k].shares > 0) =>
                      /\ k + 1 = Len(trades)
                      /\ trades[k + 1].action = "CLOSE"
                      /\ trades[k + 1].price = trades[k].price
                      /\ trades[k + 1].shares = trades[k].shares

\* A BUY on the very last bar and its CLOSE.
C7_Witness ==
    /\ pc = "return"
    /\ Len(trades) >= 2
    /\ LastTrade.action = "CLOSE"
    /\ trades[Len(trades) - 1].action = "BUY"
    /\ trades[Len(trades) - 1].date = Len(hist)

\* The signal rule of the specification for bar k, on the fractions themselves.
DecisionUndefined(k) == RSI(k).nan \/ MA_Short(k).nan \/ MA_Long(k).nan

DecisionTable(k) ==
    LET rsi == RSI(k)
        s == MA_Short(k)
        l == MA_Long(k)
        buy_rsi == rsi.num < strategy_params.rsi_oversold * rsi.den
        sell_rsi == rsi.num > strategy_params.rsi_overbought * rsi.den
        buy_ma == s.num * l.den > l.num * s.den
        sell_ma == s.num * l.den < l.num * s.den
    IN  CASE DecisionUndefined(k) -> "HOLD"
          [] buy_rsi /\ buy_ma -> "BUY"
          [] sell_rsi \/ sell_ma -> "SELL"
          [] OTHER -> "HOLD"

\* C8: on a bar with all three indicators defined the signal is the one of
\* BUY, SELL, HOLD the rule gives (BUY on both conditions, else SELL on
\* either, else HOLD); on a bar with an undefined indicator no decision is
\* made: no signal is computed and capital, shares and the log stay.
C8_Step ==
    /\ (pc = "loop" /\ pc' = "stops") =>
           /\ ~DecisionUndefined(i)
           /\ signal' \in {"BUY", "SELL", "HOLD"}
           /\ signal' = DecisionTable(i)
    /\ (pc = "loop" /\ i <= Len(hist) /\ DecisionUndefined(i)) =>
           /\ DecisionTable(i) = "HOLD"
           /\ pc' = "loop"
           /\ UNCHANGED << capital, shares, entry_price, trades, signal >>
    /\ (pc = "loop" /\ i <= Len(hist) /\ ~DecisionUndefined(i)) => pc' = "stops"

C8_SignalRule == [][C8_Step]_vars

\* SELL on the moving averages alone, while the RSI is below rsi_oversold.
C8_Witness ==
    /\ pc = "stops"
    /\ signal = "SELL"
    /\ Lt(RSI(i), Rat(strategy_params.rsi_oversold, 1))
    /\ Lt(MA_Short(i), MA_Long(i))

\* (close - entry_price) / entry_price <= -stop_loss at bar k
StopCrossed(k) ==
    (Close(k) - entry_price) * strategy_params.stop_loss.den
        <= -strategy_params.stop_loss.num * entry_price

\* C9: with stop_loss > 0 no position is carried past a bar whose close is at
\* or below the stop: between bars, and at the forced close, a LONG position's
\* latest bar has not crossed the stop of its entry price.
C9_StopNotCarried ==
    (strategy_params.stop_loss.num > 0 /\ shares > 0) =>
        /\ (pc = "loop" /\ i > 1) => ~StopCrossed(i - 1)
        /\ pc \in {"return", "done"} => ~StopCrossed(Len(hist))

\* A position liquidated by the stop-loss on the bar just processed.
C9_Witness ==
    /\ pc = "loop"
    /\ trades # << >>
    /\ LastTrade.action = "STOP_LOSS"
    /\ LastTrade.date = i - 1
    /\ StopCrossed(i - 1)
    /\ shares = 0

\* C10: the second of two calls with the same series, parameters and
\* initial_capital returns the record the first returned.
C10_SameResultTwice ==
    (pc = "done" /\ prev_outcome.kind # "none") => outcome = prev_outcome

C10_Witness ==
    /\ pc = "done"
    /\ prev_outcome.kind = "result"
    /\ outcome.kind = "result"
    /\ Len(prev_outcome.trades) >= 2


\* C11: two runs on one Backtester with their bar steps interleaved in any
\* order each return the record a run alone returns; each run has its own
\* capital, shares, entry price, trade log and equity curve (a step of one
\* run leaves the other run's locals alone), and no step writes
\* initial_capital or results.
C11_Step ==
    /\ UNCHANGED instance_vars
    /\ (suspended' # suspended) =>
           (suspended' = ActiveFrame /\ ActiveFrame' = suspended)
    /\ (prev_outcome.kind # "none" /\ pc' = "done") => outcome' = prev_outcome

C11_RunsIsolated == [][C11_Step]_vars

\* Both runs are under way at different bars: the one that is off the
\* processor has bought, the one that is running has not yet.
C11_Witness ==
    /\ prev_outcome.kind = "result"
    /\ pc = "stops"
    /\ suspended.pc = "loop"
    /\ suspended.i > i
    /\ suspended.shares > 0
    /\ shares = 0
    /\ trades = << >>
    /\ suspended.trades # << >>

\* C12: every numeric field of the performance metrics of a run over a
\* non-empty series (1 or 2 bars and zero-trade runs included) is a defined
\* number.
C12_MetricsDefined ==
    (pc = "done" /\ outcome.kind = "result") =>
        LET m == outcome.performance_metrics
        IN  /\ ~isna(m.total_return)
            /\ ~isna(m.annualized_return)
            /\ m.volatility # "nan"
            /\ m.sharpe_ratio \in {"zero", "ratio"}
            /\ ~isna(m.max_drawdown)
            /\ ~isna(m.win_rate)
            /\ ~isna(m.profit_factor)
            /\ ~isna(m.buy_hold_return)
            /\ ~isna(m.excess_return)

\* Equality of two fractions as numbers.
Eq(a, b) == Le(a, b) /\ Le(b, a)

StrictlyRising == hist # << >> /\ \A k \in 2..Len(hist) : hist[k] > hist[k - 1]

\* C13: on a strictly rising series no BUY ever fires: the position stays
\* FLAT and the trade log empty through the whole run, the result's
\* total_return is 0 and excess_return is minus buy_hold_return (a series that
\* doubles has buy_hold_return 1 and excess_return -1).
C13_RisingNeverBuys ==
    StrictlyRising =>
        /\ trades = << >>
        /\ shares = 0
        /\ pc \notin {"idle", "done"} => capital = initial_capital
        /\ pc = "done" =>
               LET m == outcome.performance_metrics
               IN  /\ outcome.kind = "result"
                   /\ outcome.trades = << >>
                   /\ Eq(outcome.total_return, Rat(0, 1))
                   /\ Eq(m.total_return, Rat(0, 1))
                   /\ Eq(m.excess_return, Neg(m.buy_hold_return))
                   /\ hist[Len(hist)] = 2 * hist[1] =>
                          /\ Eq(m.buy_hold_return, Rat(1, 1))
                          /\ Eq(m.excess_return, Rat(-1, 1))

\* A finished run over a rising series that doubles, with bars past the
\* warm-up on which the signal was computed.
C13_Witness ==
    /\ pc = "done"
    /\ StrictlyRising
    /\ Len(hist) > WarmUp
    /\ hist[Len(hist)] = 2 * hist[1]
    /\ signal \in {"HOLD", "SELL"}
    /\ outcome.kind = "result"
    /\ outcome.trades = << >>

ConstantSeries == hist # << >> /\ \A k \in 1..Len(hist) : hist[k] = hist[1]

\* C14: on a constant series the run logs no SELL, STOP_LOSS or TAKE_PROFIT,
\* at most one BUY and at most one CLOSE, which then ends the log; every
\* equity point is the initial capital and the result's total_return is 0.
C14_ConstantSeriesFlat ==
    ConstantSeries =>
        /\ TradesWith(trades, {"SELL", "STOP_LOSS", "TAKE_PROFIT"}) = << >>
        /\ Len(TradesWith(trades, {"BUY"})) <= 1
        /\ CloseCount <= 1
        /\ CloseCount = 1 => LastTrade.action = "CLOSE"
        /\ \A k \in 1..Len(equity_curve) : equity_curve[k] = initial_capital
        /\ pc = "done" =>
               /\ outcome.kind = "result"
               /\ Eq(outcome.total_return, Rat(0, 1))
               /\ Eq(outcome.performance_metrics.total_return, Rat(0, 1))

\* A finished run over a constant series longer than the warm-up.
C14_Witness ==
    /\ pc = "done"
    /\ ConstantSeries
    /\ Len(hist) > WarmUp
    /\ outcome.kind = "result"
    /\ Len(outcome.equity_curve) = Len(hist)
    /\ outcome.final_capital = initial_capital

C15_Step ==
    /\ i' \in {i, i + 1}
    /\ i' <= Len(hist) + 1
    /\ (pc \in {"loop", "stops"} /\ pc' \in {"loop", "stops"}) =>
           /\ (i' = i + 1) <=> (Len(equity_curve') = Len(equity_curve) + 1)
           /\ (i' = i) <=> (pc = "loop" /\ pc' = "stops")
    /\ (pc = "loop" /\ pc' = "return") =>
           /\ i = Len(hist) + 1
           /\ Len(equity_curve) = Len(hist)
           /\ Len(trades') <= Len(trades) + 1
    /\ pc = "return" =>
           /\ pc' = "done"
           /\ trades' = trades /\ equity_curve' = equity_curve
    /\ pc # "done"

\* C15: every run over a finite series terminates; the bar index only moves
\* forward, by one, with each bar's equity point, so each bar is processed
\* once and in order; after the last bar the run takes one closing step (at
\* most one CLOSE trade) and returns; a finished run takes no further step.
C15_Terminates == <>(pc = "done") /\ [][C15_Step]_vars

\* A finished run that went through every bar of a series longer than the
\* warm-up, with a trade in the loop and the closing trade after it.
C15_Witness ==
    /\ pc = "done"
    /\ outcome.kind = "result"
    /\ i = Len(hist) + 1
    /\ Len(hist) > WarmUp
    /\ Len(outcome.equity_curve) = Len(hist)
    /\ Len(trades) >= 2
    /\ LastTrade.action = "CLOSE"

\* C16: on a bar with defined indicators whose signal is BUY, a FLAT position
\* with capital >= close becomes LONG: shares is the largest whole number
\* with shares * close <= capital, capital goes down by exactly shares *
\* close, entry_price is the close, and exactly one BUY trade is appended
\* that records the close, the shares and the capital after the purchase.
C16_Step ==
    (/\ pc = "loop" /\ pc' = "stops"
     /\ shares = 0
     /\ ~DecisionUndefined(i)
     /\ DecisionTable(i) = "BUY"
     /\ capital >= Close(i)) =>
        /\ shares' > 0
        /\ shares' * Close(i) <= capital
        /\ capital < (shares' + 1) * Close(i)
        /\ capital' = capital - shares' * Close(i)
        /\ capital' >= 0
        /\ entry_price' = Close(i)
        /\ trades' = Append(trades, Trade(i, "BUY", Close(i), shares', capital'))

C16_BuyOpensPosition == [][C16_Step]_vars

\* Just after such a BUY that leaves a remainder of capital.
C16_Witness ==
    /\ pc = "stops"
    /\ signal = "BUY"
    /\ trades # << >>
    /\ LastTrade = Trade(i, "BUY", Close(i), shares, capital)
    /\ shares > 0
    /\ capital > 0
    /\ entry_price = Close(i)
    /\ capital + shares * Close(i) >= Close(i)

\* C17: a BUY signal on a FLAT position whose capital buys no whole share
\* (floor(capital / close) = 0) leaves the position FLAT and appends no
\* trade: the trade log never contains a BUY of 0 shares.
C17_NoZeroShareBuy ==
    \A k \in 1..Len(trades) : trades[k].action = "BUY" => trades[k].shares > 0

\* The exits of the trade log that were made on bar d by the loop.
LoopExitsOn(d) ==
    SelectSeq(trades, LAMBDA t : t.date = d /\ t.action \in {"SELL", "STOP_LOSS", "TAKE_PROFIT"})

TargetCrossed(k) ==
    (Close(k) - entry_price) * strategy_params.take_profit.den
        >= strategy_params.take_profit.num * entry_price

\* C18: a bar has at most one exit among SELL, STOP_LOSS and TAKE_PROFIT.  A
\* LONG position with a SELL signal is sold in the signal step, whatever the
\* stop thresholds say, and the stop checks of a bar act only on a position
\* that is still LONG after the signal step: on a FLAT one they change neither
\* capital, shares nor the trade log.
C18_Step ==
    /\ \A d \in 1..Len(hist) : Len(LoopExitsOn(d)) <= 1
    /\ (pc = "loop" /\ pc' = "stops" /\ shares > 0 /\ DecisionTable(i) = "SELL") =>
           /\ trades' = Append(trades, Trade(i, "SELL", Close(i), shares,
                                             capital + shares * Close(i)))
           /\ shares' = 0
    /\ (pc = "stops" /\ shares = 0) =>
           UNCHANGED << capital, shares, trades >>
    /\ (pc = "stops" /\ trades' # trades) =>
           /\ shares > 0
           /\ trades'[Len(trades')].action \in {"STOP_LOSS", "TAKE_PROFIT"}
           /\ \A k \in 1..Len(trades) : trades[k].date = i => trades[k].action = "BUY"

C18_OneExitPerBar == [][C18_Step]_vars

\* The stop checks are about to run on a bar whose SELL has just closed a
\* position that had also fallen through its stop-loss.
C18_Witness ==
    /\ pc = "stops"
    /\ shares = 0
    /\ trades # << >>
    /\ LastTrade.action = "SELL"
    /\ LastTrade.date = i
    /\ entry_price > 0
    /\ StopCrossed(i)

\* C19: in the stop checks of a bar on which the position is still LONG, a
\* close at or below the stop-loss level is a STOP_LOSS (it is tested first);
\* otherwise a close at or above the take-profit level, equality included, is
\* a TAKE_PROFIT that sells all shares: capital goes up by shares * close and
\* shares becomes 0; otherwise capital, shares and the log are unchanged.
\* Every TAKE_PROFIT of the log directly follows the BUY of an earlier bar
\* and sells exactly the shares of that BUY.
C19_Step ==
    /\ (pc = "stops" /\ pc' = "loop" /\ shares > 0) =>
           LET c == capital + shares * Close(i)
           IN  /\ StopCrossed(i) =>
                      /\ trades' = Append(trades, Trade(i, "STOP_LOSS", Close(i), shares, c))
                      /\ capital' = c /\ shares' = 0
               /\ (~StopCrossed(i) /\ TargetCrossed(i)) =>
                      /\ trades' = Append(trades, Trade(i, "TAKE_PROFIT", Close(i), shares, c))
                      /\ capital' = c /\ shares' = 0
               /\ (~StopCrossed(i) /\ ~TargetCrossed(i)) =>
                      UNCHANGED << capital, shares, trades >>
    /\ \A k \in 1..Len(trades) :
           trades[k].action = "TAKE_PROFIT" =>
               /\ k > 1
               /\ trades[k - 1].action = "BUY"
               /\ trades[k - 1].date < trades[k].date
               /\ trades[k - 1].shares = trades[k].shares
               /\ trades[k].shares > 0

C19_TakeProfit == [][C19_Step]_vars

\* A TAKE_PROFIT has just been made at a close exactly on the target.
C19_Witness ==
    /\ pc = "loop"
    /\ trades # << >>
    /\ LastTrade.action = "TAKE_PROFIT"
    /\ LastTrade.date = i - 1
    /\ shares = 0
    /\ capital = LastTrade.shares * LastTrade.price + trades[Len(trades) - 1].capital
    /\ (LastTrade.price - entry_price) * strategy_params.take_profit.den
           = strategy_params.take_profit.num * entry_price

\* C20: a bar on which the RSI, the short or the long moving average is
\* undefined, and so every bar before bar max(rsi_period, ma_long), takes no
\* decision: capital, shares, entry_price and the trade log are unchanged,
\* also when the position is LONG, and exactly one equity point, capital +
\* shares * close, is appended.  No trade is dated before bar
\* max(rsi_period, ma_long).
C20_Step ==
    /\ (pc = "loop" /\ i <= Len(hist) /\ (DecisionUndefined(i) \/ i < WarmUp)) =>
           /\ UNCHANGED << capital, shares, entry_price, trades >>
           /\ equity_curve' = Append(equity_curve, capital + shares * Close(i))
           /\ i' = i + 1
           /\ pc' = "loop"
    /\ \A k \in 1..Len(trades) : trades[k].date >= WarmUp

C20_UndefinedBarFrame == [][C20_Step]_vars

\* An undefined bar after the warm-up has just been passed with a position
\* open.
C20_Witness ==
    /\ pc = "loop"
    /\ i - 1 > WarmUp
    /\ DecisionUndefined(i - 1)
    /\ shares > 0
    /\ trades # << >>
    /\ LastTrade.action = "BUY"
    /\ LastTrade.date < i - 1
    /\ Len(equity_curve) = i - 1
    /\ equity_curve[i - 1] = capital + shares * Close(i - 1)

\* C21: on every bar whose RSI window of rsi_period bars is full the RSI is a
\* defined number in [0, 100], also when the window's average loss is 0: it
\* is 100 when the average gain is positive and 50 when the average gain and
\* the average loss are both 0.
C21_RsiDefinedOnFullWindow ==
    (pc = "loop" /\ i <= Len(hist) /\ i >= strategy_params.rsi_period) =>
        LET rsi == RSI(i)
            gain == WindowSum(Gain, i, strategy_params.rsi_period)
            loss == WindowSum(Loss, i, strategy_params.rsi_period)
        IN  /\ ~isna(rsi)
            /\ Ge(rsi, Rat(0, 1)) /\ Le(rsi, Rat(100, 1))
            /\ (loss = 0 /\ gain > 0) => Eq(rsi, Rat(100, 1))
            /\ (loss = 0 /\ gain = 0) => Eq(rsi, Rat(50, 1))

\* RSI < rsi_oversold and MA_short > MA_long at bar k.
BuyCondition(k) ==
    LET rsi == RSI(k)
        s == MA_Short(k)
        l == MA_Long(k)
    IN  /\ ~DecisionUndefined(k)
        /\ rsi.num < strategy_params.rsi_oversold * rsi.den
        /\ s.num * l.den > l.num * s.den

\* RSI > rsi_overbought or MA_short < MA_long at bar k.
SellCondition(k) ==
    LET rsi == RSI(k)
        s == MA_Short(k)
        l == MA_Long(k)
    IN  /\ ~DecisionUndefined(k)
        /\ \/ rsi.num > strategy_params.rsi_overbought * rsi.den
           \/ s.num * l.den < l.num * s.den

C22_SellStep ==
    (pc = "loop" /\ pc' = "stops" /\ BuyCondition(i) /\ SellCondition(i)) =>
        signal' = "SELL"

\* C22 as stated: on a bar where the BUY condition and the SELL condition
\* both hold the Signal Generator returns SELL.
C22_SellDominates == [][C22_SellStep]_vars

C22_BuyStep ==
    /\ (pc = "loop" /\ pc' = "stops" /\ BuyCondition(i)) => signal' = "BUY"
    /\ (pc = "loop" /\ pc' = "stops" /\ ~BuyCondition(i) /\ SellCondition(i)) =>
           signal' = "SELL"
    /\ (pc = "loop" /\ pc' = "stops" /\ BuyCondition(i) /\ SellCondition(i)) =>
           strategy_params.rsi_overbought < strategy_params.rsi_oversold

\* C22 amended: the BUY condition is tested first, so on a bar where the BUY
\* condition and the SELL condition both hold the Signal Generator returns
\* BUY; SELL is returned only when the BUY condition fails.  Both hold only
\* with rsi_overbought below rsi_oversold.
C22_BuyDominates == [][C22_BuyStep]_vars

\* The signal of a bar on which both conditions hold has been computed.
C22_Witness ==
    /\ pc = "stops"
    /\ BuyCondition(i)
    /\ SellCondition(i)
    /\ signal = "BUY"

\* C23: whenever the volatility of the daily returns of the equity curve is
\* 0 the result's sharpe_ratio is 0 and the run ends in a result, not in an
\* error; in particular a run that never holds a position has a constant
\* equity curve, volatility 0 once there are two daily returns, and
\* sharpe_ratio 0.
C23_ZeroVolatilityZeroSharpe ==
    (pc = "done" /\ hist # << >>) =>
        LET m == outcome.performance_metrics
            e == outcome.equity_curve
        IN  /\ outcome.kind = "result"
            /\ m.volatility = "zero" => m.sharpe_ratio = "zero"
            /\ m.sharpe_ratio = "ratio" => m.volatility = "positive"
            /\ (\A k \in 1..Len(trades) : trades[k].shares = 0) =>
                   /\ \A k \in 1..Len(e) : e[k] = initial_capital
                   /\ Len(e) >= 3 => m.volatility = "zero"
                   /\ m.sharpe_ratio = "zero"

\* A finished run past the warm-up that never held a position: volatility 0.
C23_Witness ==
    /\ pc = "done"
    /\ outcome.kind = "result"
    /\ Len(hist) > WarmUp
    /\ signal \in {"HOLD", "SELL"}
    /\ trades = << >>
    /\ outcome.performance_metrics.volatility = "zero"
    /\ outcome.performance_metrics.sharpe_ratio = "zero"

\* The number of trades of the returned log whose action is in actions.
CountActions(actions) ==
    Cardinality({k \in 1..Len(outcome.trades) : outcome.trades[k].action \in actions})

\* C24: win_rate is the number of SELL and TAKE_PROFIT trades of the log over
\* the number of all its trades (BUY, STOP_LOSS and CLOSE count below the
\* line only) and 0 for an empty log; total_trades is the length of the log.
C24_WinRate ==
    (pc = "done" /\ outcome.kind = "result") =>
        LET m == outcome.performance_metrics
            n == Len(outcome.trades)
        IN  /\ m.total_trades = n
            /\ ~isna(m.win_rate)
            /\ n = 0 => m.win_rate.num = 0
            /\ n > 0 => m.win_rate.num * n
                           = CountActions({"SELL", "TAKE_PROFIT"}) * m.win_rate.den
            /\ m.win_rate.den > 0

\* A finished run whose log has a win, a STOP_LOSS and BUY entries.
C24_Witness ==
    /\ pc = "done"
    /\ outcome.kind = "result"
    /\ CountActions({"SELL", "TAKE_PROFIT"}) >= 1
    /\ CountActions({"STOP_LOSS"}) >= 1
    /\ CountActions({"BUY"}) >= 2
    /\ outcome.performance_metrics.win_rate.num > 0

\* The sum of the prices of the trades of the returned log whose action is
\* in actions.
RECURSIVE PriceSum(_, _)
PriceSum(actions, n) ==
    IF n = 0 THEN 0
    ELSE PriceSum(actions, n - 1) +
         (IF outcome.trades[n].action \in actions THEN outcome.trades[n].price ELSE 0)

\* C25: profit_factor is 0 whenever the log has no STOP_LOSS trade (an empty
\* log included) and whenever it has no SELL or TAKE_PROFIT trade; with at
\* least one of each it is the mean price of the SELL and TAKE_PROFIT trades
\* over the mean price of the STOP_LOSS trades, a positive number.
C25_ProfitFactor ==
    (pc = "done" /\ outcome.kind = "result") =>
        LET pf == outcome.performance_metrics.profit_factor
            n == Len(outcome.trades)
            wins == CountActions({"SELL", "TAKE_PROFIT"})
            losses == CountActions({"STOP_LOSS"})
        IN  /\ ~isna(pf)
            /\ losses = 0 => pf.num = 0
            /\ wins = 0 => pf.num = 0
            /\ (wins > 0 /\ losses > 0) =>
                   /\ pf.den > 0
                   /\ pf.num > 0
                   /\ pf.num * (wins * PriceSum({"STOP_LOSS"}, n))
                          = (PriceSum({"SELL", "TAKE_PROFIT"}, n) * losses) * pf.den

\* A finished run whose log has a winning SELL and a STOP_LOSS at another
\* price.
C25_Witness ==
    /\ pc = "done"
    /\ outcome.kind = "result"
    /\ CountActions({"SELL", "TAKE_PROFIT"}) >= 1
    /\ CountActions({"STOP_LOSS"}) >= 1
    /\ outcome.performance_metrics.profit_factor.num
           # outcome.performance_metrics.profit_factor.den

\* C26: the first bar is never a trading bar, whatever the RSI and moving
\* average windows (one bar included), so the first equity point is
\* initial_capital; the result's top-level total_return equals
\* performance_metrics.total_return, and final_capital is the last equity
\* point.
C26_ReturnsAgree ==
    /\ equity_curve # << >> => equity_curve[1] = initial_capital
    /\ \A k \in 1..Len(trades) : trades[k].date > 1
    /\ (pc \in {"loop", "stops"} /\ i = 1) => DecisionUndefined(1)
    /\ (pc = "done" /\ outcome.kind = "result") =>
           /\ outcome.equity_curve[1] = initial_capital
           /\ outcome.final_capital = outcome.equity_curve[Len(outcome.equity_curve)]
           /\ Eq(outcome.total_return, outcome.performance_metrics.total_return)
           /\ outcome.total_return.num = outcome.final_capital - initial_capital
           /\ outcome.total_return.den = initial_capital

\* A finished run with an RSI window of one bar that traded on its second
\* bar and ended with a gain or a loss.
C26_Witness ==
    /\ pc = "done"
    /\ outcome.kind = "result"
    /\ strategy_params.rsi_period = 1
    /\ trades # << >>
    /\ trades[1].date = 2
    /\ outcome.total_return.num # 0

\* C27: the reported win_rate never exceeds 1/2: every SELL and TAKE_PROFIT
\* of the log directly follows a BUY of its own, which counts in the
\* denominator, so a run whose every round trip wins reports at most 1/2.
C27_WinRateAtMostHalf ==
    /\ \A k \in 1..Len(trades) :
           trades[k].action \in {"SELL", "TAKE_PROFIT"} =>
               k > 1 /\ trades[k - 1].action = "BUY"
    /\ (pc = "done" /\ outcome.kind = "result") =>
           LET wr == outcome.performance_metrics.win_rate
           IN  /\ wr.den > 0
               /\ 2 * wr.num <= wr.den
               /\ 2 * CountActions({"SELL", "TAKE_PROFIT"}) <= Len(outcome.trades)

\* A finished run whose round trips all won: win_rate is exactly 1/2.
C27_Witness ==
    /\ pc = "done"
    /\ outcome.kind = "result"
    /\ Len(outcome.trades) = 4
    /\ CountActions({"SELL", "TAKE_PROFIT"}) = 2
    /\ outcome.final_capital > initial_capital
    /\ 2 * outcome.performance_metrics.win_rate.num
           = outcome.performance_metrics.win_rate.den

\* C28: the trade log of a run strictly alternates entry and exit: it is
\* empty or starts with BUY, every BUY is directly followed by an exit (SELL,
\* STOP_LOSS, TAKE_PROFIT or CLOSE), every exit directly follows a BUY, the
\* log ends with an exit, CLOSE occurs at most once and only as the last
\* entry, and the dates never decrease.
C28_LogAlternates ==
    (pc = "done" /\ outcome.kind = "result") =>
        LET log == outcome.trades
            n == Len(log)
        IN  /\ n > 0 => log[1].action = "BUY" /\ log[n].action \in Exits
            /\ \A k \in 1..n :
                   /\ log[k].action = "BUY" => k < n /\ log[k + 1].action \in Exits
                   /\ log[k].action \in Exits => k > 1 /\ log[k - 1].action = "BUY"
                   /\ log[k].action = "CLOSE" => k = n
                   /\ k > 1 => log[k - 1].date <= log[k].date

\* The index of the last BUY of the trade log, 0 if there is none.
LastBuy ==
    LET buys == {k \in 1..Len(trades) : trades[k].action = "BUY"}
    IN  IF buys = {} THEN 0 ELSE CHOOSE k \in buys : \A j \in buys : j <= k

\* C29: a position is never closed in part nor added to: the shares held
\* are 0 or exactly the shares of the most recent BUY trade, and every exit
\* (SELL, STOP_LOSS, TAKE_PROFIT, CLOSE) records the shares of the BUY
\* directly before it.
C29_WholePosition ==
    /\ shares = 0 \/ (LastBuy > 0 /\ shares = trades[LastBuy].shares)
    /\ \A k \in 1..Len(trades) :
           trades[k].action \in Exits =>
               /\ k > 1
               /\ trades[k - 1].action = "BUY"
               /\ trades[k].shares = trades[k - 1].shares
               /\ trades[k].shares > 0

\* A position of several shares has just been sold whole.
C29_Witness ==
    /\ pc = "stops"
    /\ Len(trades) >= 2
    /\ LastTrade.action = "SELL"
    /\ LastTrade.shares >= 2
    /\ trades[Len(trades) - 1].action = "BUY"
    /\ trades[Len(trades) - 1].shares = LastTrade.shares
    /\ shares = 0

\* The shares held at the end of bar d, read from the trade log: those of
\* the last trade of the loop dated d or earlier if it is a BUY, else 0.
HeldAfter(d) ==
    LET upto == {k \in 1..Len(trades) : trades[k].date <= d /\ trades[k].action # "CLOSE"}
        last == CHOOSE k \in upto : \A j \in upto : j <= k
    IN  IF upto = {} THEN 0
        ELSE IF trades[last].action = "BUY" THEN trades[last].shares ELSE 0

C30_Step ==
    /\ \A k \in 1..Len(trades) : trades[k].price = Close(trades[k].date)
    /\ (pc = "loop" /\ pc' = "stops") =>
           capital' + shares' * Close(i) = capital + shares * Close(i)
    /\ (pc \in {"loop", "stops"} /\ i' = i + 1) =>
           /\ equity_curve' = Append(equity_curve, capital + shares * Close(i))
           /\ capital' + shares' * Close(i) = capital + shares * Close(i)
    /\ \A k \in 2..Len(equity_curve) :
           /\ equity_curve[k] - equity_curve[k - 1]
                  = HeldAfter(k - 1) * (Close(k) - Close(k - 1))
           /\ HeldAfter(k - 1) = 0 => equity_curve[k] = equity_curve[k - 1]

\* C30: a trade is value-neutral at the close of its bar: every trade's
\* price is the close of the bar it is dated on, and the equity recorded for
\* a bar is capital + shares * close as they were before the bar, whether or
\* not a BUY or an exit happened on it; so equity[k] - equity[k-1] is the
\* shares held at the end of bar k-1 times close[k] - close[k-1], and the
\* curve is constant while the position is FLAT.
C30_ValueNeutral == [][C30_Step]_vars

\* A position of several shares was bought, carried over a bar at another
\* close and has just been sold; a FLAT bar came before the BUY.
C30_Witness ==
    /\ pc = "loop"
    /\ i >= 4
    /\ Len(equity_curve) = i - 1
    /\ trades # << >>
    /\ LastTrade.action \in {"SELL", "STOP_LOSS", "TAKE_PROFIT"}
    /\ LastTrade.date = i - 1
    /\ LastTrade.shares >= 2
    /\ equity_curve[i - 1] # equity_curve[i - 2]
    /\ equity_curve[1] = equity_curve[2]
====
